---- MODULE Spec2Model ----
(***************************************************************************)
(* Model of negrel/threadpool.h: the intrusive task batch, the lazily      *)
(* spawning pool, the worker loop and the scheduling / wake-up protocol.   *)
(* Every step of tpool_init, tpool_schedule, tpool_deinit and              *)
(* tpool_thread_main that another thread can observe is its own action.    *)
(***************************************************************************)
EXTENDS Integers, Sequences, FiniteSets, TLC

\* ------------------------------------------------------------------ bounds
\* number of caller-owned tasks
MaxTasks == 2
\* tpool_schedule calls made, by all callers together, before tpool_deinit
MaxCalls == 2
\* largest cfg.threads_max handed to tpool_init (0 selects the default)
MaxThreadsMax == 1

\* tasks handed to the batch operations when they are exercised on their own
MaxBatchTasks == 3

\* --------------------------------------------------------------- constants
NULL == 0
TPOOL_DEFAULT_THREADS_MAX == 16
\* errors pthread_attr_init / pthread_create can report (ENOMEM, EAGAIN)
AttrErrors == {12}
CreateErrors == {11}

Tasks == 1..MaxTasks
BatchTasks == 1..MaxBatchTasks
\* the thread that owns the pool, and a second thread that shares it
Callers == {"main", "other"}
\* every tpool_schedule call creates at most one thread
Workers == 1..MaxCalls
NONE == "none"
\* the name under which a worker thread holds the mutex
Tid(w) == ToString(w)

\* ------------------------------------------------- struct tpool_batch (pure)
ZeroBatch == [size |-> 0, head |-> NULL, tail |-> NULL]

tpool_batch_from_task(t) == [size |-> 1, head |-> t, tail |-> t]

\* tpool_batch_push with the pushed batch spliced in front of b
tpool_batch_push_front(b, o, nx) ==
    IF o.size = 0 THEN [b |-> b, next |-> nx]
    ELSE IF b.size = 0 THEN [b |-> o, next |-> nx]
    ELSE [b |-> [size |-> b.size + o.size, head |-> o.head, tail |-> b.tail],
          next |-> [nx EXCEPT ![o.tail] = b.head]]

\* tpool_batch_push without line 146, b->size += o.size
tpool_batch_push_keep_size(b, o, nx) ==
    IF o.size = 0 THEN [b |-> b, next |-> nx]
    ELSE IF b.size = 0 THEN [b |-> o, next |-> nx]
    ELSE [b |-> [size |-> b.size, head |-> b.head, tail |-> o.tail],
          next |-> [nx EXCEPT ![b.tail] = o.head]]

\* b is the batch pushed into, o the batch pushed, nx the tasks' next fields
tpool_batch_push(b, o, nx) ==
    IF o.size = 0 THEN [b |-> b, next |-> nx]
    ELSE IF b.size = 0 THEN [b |-> o, next |-> nx]
    ELSE [b |-> [size |-> b.size + o.size, head |-> b.head, tail |-> o.tail],
          next |-> [nx EXCEPT ![b.tail] = o.head]]

\* tpool_batch_pop with line 158, b->size--, ahead of the emptiness test
tpool_batch_pop_dec_first(b, nx) ==
    IF b.size = 0 THEN [b |-> [b EXCEPT !.size = -1], t |-> NULL]
    ELSE LET t == b.head
             h == nx[t]
         IN  [b |-> IF b.tail = t
                    THEN [size |-> b.size - 1, head |-> NULL, tail |-> NULL]
                    ELSE [size |-> b.size - 1, head |-> h, tail |-> b.tail],
              t |-> t]

\* tpool_batch_pop without lines 156-157, the reset of tail and head
tpool_batch_pop_keep_tail(b, nx) ==
    IF b.size = 0 THEN [b |-> b, t |-> NULL]
    ELSE LET t == b.head
             h == nx[t]
         IN  [b |-> [size |-> b.size - 1, head |-> h, tail |-> b.tail],
              t |-> t]

tpool_batch_pop(b, nx) ==
    IF b.size = 0 THEN [b |-> b, t |-> NULL]
    ELSE LET t == b.head
             h == nx[t]
         IN  [b |-> IF b.tail = t
                    THEN [size |-> b.size - 1, head |-> NULL, tail |-> NULL]
                    ELSE [size |-> b.size - 1, head |-> h, tail |-> b.tail],
              t |-> t]

\* the tasks of a batch in the order repeated tpool_batch_pop returns them
RECURSIVE PopOrder(_, _)
PopOrder(b, nx) ==
    LET r == tpool_batch_pop(b, nx)
    IN  IF r.t = NULL THEN <<>> ELSE <<r.t>> \o PopOrder(r.b, nx)

\* a batch of n tasks t, t+1, ... built as test.c builds it: from_task, push
RECURSIVE BuildBatch(_, _, _, _)
BuildBatch(b, t, n, nx) ==
    IF n = 0 THEN [b |-> b, next |-> nx]
    ELSE LET r == tpool_batch_push(b, tpool_batch_from_task(t), nx)
         IN  BuildBatch(r.b, t + 1, n - 1, r.next)

\* the batches of a caller, one per entry of sizes, over consecutive tasks
RECURSIVE BuildPlan(_, _, _)
BuildPlan(sizes, first, nx) ==
    IF sizes = <<>> THEN [batches |-> <<>>, next |-> nx]
    ELSE LET r == BuildBatch(ZeroBatch, first, Head(sizes), nx)
             rest == BuildPlan(Tail(sizes), first + Head(sizes), r.next)
         IN  [batches |-> <<r.b>> \o rest.batches, next |-> rest.next]

RECURSIVE SumSeq(_)
SumSeq(s) == IF s = <<>> THEN 0 ELSE Head(s) + SumSeq(Tail(s))

SeqsUpTo(S, n) == UNION {[1..k -> S] : k \in 0..n}

\* ------------------------------------------------- atomic_uint arithmetic
\* An unsigned 32-bit value v is held as v when v < 2^31 and as v - 2^32
\* otherwise, so that 0 - 1 is UINT_MAX (held as -1) and compares as such.
UAdd1(x) == IF x = 2147483647 THEN -2147483647 - 1 ELSE x + 1
USub1(x) == IF x = -2147483647 - 1 THEN 2147483647 ELSE x - 1
ULess(a, b) == IF (a >= 0) = (b >= 0) THEN a < b ELSE a >= 0

\* --------------------------------------------------------------- the state
VARIABLES
    cfg,            \* struct tpool: cfg.threads_max
    threads_count,  \* struct tpool: atomic_uint threads_count
    threads_idle,   \* struct tpool: atomic_uint threads_idle
    mu,             \* struct tpool: the thread holding mu, or NONE
    work_queue,     \* struct tpool: work_queue
    done,           \* struct tpool: done
    cond,           \* struct tpool: cond, the workers blocked in pthread_cond_wait
    cond_live,      \* cond is initialised and not destroyed
    next,           \* struct tpool_task: next, per task
    pcC,            \* where each caller thread is
    pcW,            \* where each worker thread is
    loc,            \* tpool_schedule's arguments and locals, per caller
    ret,            \* value returned by the caller's last tpool_schedule
    task,           \* tpool_thread_main's local task, per worker
    cfg_in,         \* the configuration handed to tpool_init
    plan,           \* the batches each caller has still to schedule
    created,        \* number of threads pthread_create has started
    runs,           \* how many times each task's work function was invoked
    pushOrder,      \* tasks in the order they were appended to work_queue
    popOrder,       \* tasks in the order workers popped them
    hist,           \* what the caller's current or last call did, per caller
                    \* (ridle, rcount: the values loaded at lines 234-235,
                    \* kept while the call lasts)
    errq,           \* tasks enqueued by calls that returned a spawn error
    bt,             \* two caller-held batches (batch operations on their own)
    bnext,          \* the next fields of the tasks those batches are built from
    op              \* the last batch operation applied to bt, and on what

vars == <<cfg, threads_count, threads_idle, mu, work_queue, done, cond,
          cond_live, next, pcC, pcW, loc, ret, task, cfg_in, plan, created,
          runs, pushOrder, popOrder, hist, errq, bt, bnext, op>>

poolVars == <<cfg, threads_count, threads_idle, mu, work_queue, done, cond,
              cond_live>>

batchVars == <<bt, bnext, op>>

NoOp == [name |-> "none", slot |-> 0, pre |-> ZeroBatch, a |-> <<>>,
         o |-> ZeroBatch, b |-> <<>>, t |-> NULL]

NoCall == [n |-> 0, tasks |-> <<>>, sig |-> 0, inc |-> 0, locks |-> 0,
           spawned |-> 0, failed |-> FALSE, ridle |-> <<>>, rcount |-> <<>>]

\* struct tpool tpool = {0}; tasks on the stack, their next fields either
\* zeroed (single_task) or indeterminate (thousand_tasks)
PoolInit ==
    \E sm \in SeqsUpTo(0..MaxTasks, MaxCalls), so \in SeqsUpTo(1..MaxTasks, 1),
       g \in {NULL, 1} :
        /\ SumSeq(sm) + SumSeq(so) <= MaxTasks
        /\ Len(sm) + Len(so) <= MaxCalls
        /\ LET pm == BuildPlan(sm, 1, [t \in Tasks |-> g])
               po == BuildPlan(so, 1 + SumSeq(sm), pm.next)
           IN  /\ plan = [c \in Callers |->
                            IF c = "main" THEN pm.batches ELSE po.batches]
               /\ next = po.next
        /\ cfg_in \in [threads_max : 0..MaxThreadsMax]
        /\ cfg = [threads_max |-> 0]
        /\ threads_count = 0
        /\ threads_idle = 0
        /\ mu = NONE
        /\ work_queue = ZeroBatch
        /\ done = FALSE
        /\ cond = {}
        /\ cond_live = FALSE
        /\ pcC = [c \in Callers |-> IF c = "main" THEN "init" ELSE "idle"]
        /\ pcW = [w \in Workers |-> "none"]
        /\ loc = [c \in Callers |-> [b |-> ZeroBatch, idle |-> 0, err |-> 0]]
        /\ ret = [c \in Callers |-> 0]
        /\ task = [w \in Workers |-> NULL]
        /\ created = 0
        /\ runs = [t \in Tasks |-> 0]
        /\ pushOrder = <<>>
        /\ popOrder = <<>>
        /\ hist = [c \in Callers |-> NoCall]
        /\ errq = [tasks |-> {}, covered |-> {}]

Init ==
    /\ PoolInit
    /\ bt = [i \in 1..2 |-> ZeroBatch]
    /\ bnext = [t \in BatchTasks |-> NULL]
    /\ op = NoOp

Live == {w \in Workers : pcW[w] \notin {"none", "exited"}}
Range(s) == {s[i] : i \in 1..Len(s)}

\* tpool_init with threads_count started at 1
tpool_init_count_one ==
    /\ pcC["main"] = "init"
    /\ cfg' = [threads_max |-> IF cfg_in.threads_max = 0
                               THEN TPOOL_DEFAULT_THREADS_MAX
                               ELSE cfg_in.threads_max]
    /\ threads_count' = 1
    /\ threads_idle' = 0
    /\ mu' = NONE
    /\ work_queue' = ZeroBatch
    /\ done' = FALSE
    /\ cond' = {}
    /\ cond_live' = TRUE
    /\ pcC' = [pcC EXCEPT !["main"] = "idle"]
    /\ UNCHANGED <<next, pcW, loc, ret, task, cfg_in, plan, created, runs,
                   pushOrder, popOrder, hist, errq, batchVars>>

\* ------------------------------------------------------------- tpool_init
tpool_init ==
    /\ pcC["main"] = "init"
    /\ cfg' = [threads_max |-> IF cfg_in.threads_max = 0
                               THEN TPOOL_DEFAULT_THREADS_MAX
                               ELSE cfg_in.threads_max]
    /\ threads_count' = 0
    /\ threads_idle' = 0
    /\ mu' = NONE
    /\ work_queue' = ZeroBatch
    /\ done' = FALSE
    /\ cond' = {}
    /\ cond_live' = TRUE
    /\ pcC' = [pcC EXCEPT !["main"] = "idle"]
    /\ UNCHANGED <<next, pcW, loc, ret, task, cfg_in, plan, created, runs,
                   pushOrder, popOrder, hist, errq, batchVars>>

\* --------------------------------------------------------- tpool_schedule
\* tpool_schedule without the test of line 225
S_begin_no_empty_test(c) ==
    /\ pcC[c] = "idle"
    /\ pcC["main"] # "init"
    /\ plan[c] # <<>>
    /\ LET b == Head(plan[c])
       IN  /\ loc' = [loc EXCEPT ![c] = [b |-> b, idle |-> 0, err |-> 0]]
           /\ hist' = [hist EXCEPT ![c] =
                        [NoCall EXCEPT !.n = hist[c].n + 1,
                                       !.tasks = PopOrder(b, next)]]
           /\ pcC' = [pcC EXCEPT ![c] = "s_lock"]
           /\ UNCHANGED ret
    /\ plan' = [plan EXCEPT ![c] = Tail(plan[c])]
    /\ UNCHANGED <<poolVars, next, pcW, task, cfg_in, created, runs,
                   pushOrder, popOrder, errq, batchVars>>

\* entry and line 225: an empty batch returns 0 at once
S_begin(c) ==
    /\ pcC[c] = "idle"
    /\ pcC["main"] # "init"
    /\ plan[c] # <<>>
    /\ LET b == Head(plan[c])
       IN  /\ loc' = [loc EXCEPT ![c] = [b |-> b, idle |-> 0, err |-> 0]]
           /\ hist' = [hist EXCEPT ![c] =
                        [NoCall EXCEPT !.n = hist[c].n + 1,
                                       !.tasks = PopOrder(b, next)]]
           /\ IF b.size = 0
              THEN /\ ret' = [ret EXCEPT ![c] = 0]
                   /\ pcC' = [pcC EXCEPT ![c] = "idle"]
              ELSE /\ pcC' = [pcC EXCEPT ![c] = "s_lock"]
                   /\ UNCHANGED ret
    /\ plan' = [plan EXCEPT ![c] = Tail(plan[c])]
    /\ UNCHANGED <<poolVars, next, pcW, task, cfg_in, created, runs,
                   pushOrder, popOrder, errq, batchVars>>

\* line 229
S_lock(c) ==
    /\ pcC[c] = "s_lock"
    /\ mu = NONE
    /\ mu' = c
    /\ pcC' = [pcC EXCEPT ![c] = "s_push"]
    /\ hist' = [hist EXCEPT ![c].locks = @ + 1]
    /\ UNCHANGED <<cfg, threads_count, threads_idle, work_queue, done, cond,
                   cond_live, next, pcW, loc, ret, task, cfg_in, plan,
                   created, runs, pushOrder, popOrder, errq, batchVars>>

\* line 230
S_push(c) ==
    /\ pcC[c] = "s_push"
    /\ LET r == tpool_batch_push(work_queue, loc[c].b, next)
       IN  /\ work_queue' = r.b
           /\ next' = r.next
    /\ pushOrder' = pushOrder \o hist[c].tasks
    /\ pcC' = [pcC EXCEPT ![c] = "s_unlock"]
    /\ UNCHANGED <<cfg, threads_count, threads_idle, mu, done, cond,
                   cond_live, pcW, loc, ret, task, cfg_in, plan, created,
                   runs, popOrder, hist, errq, batchVars>>

\* line 231
S_unlock(c) ==
    /\ pcC[c] = "s_unlock"
    /\ mu' = NONE
    /\ pcC' = [pcC EXCEPT ![c] = "s_read_idle"]
    /\ UNCHANGED <<cfg, threads_count, threads_idle, work_queue, done, cond,
                   cond_live, next, pcW, loc, ret, task, cfg_in, plan,
                   created, runs, pushOrder, popOrder, hist, errq, batchVars>>

\* line 234
S_read_idle(c) ==
    /\ pcC[c] = "s_read_idle"
    /\ loc' = [loc EXCEPT ![c].idle = threads_idle]
    /\ hist' = [hist EXCEPT ![c].ridle = <<threads_idle>>]
    /\ pcC' = [pcC EXCEPT ![c] = "s_read_count"]
    /\ UNCHANGED <<poolVars, next, pcW, ret, task, cfg_in, plan, created,
                   runs, pushOrder, popOrder, errq, bt, bnext, op>>

\* line 235 without the comparison against cfg.threads_max
S_read_count_no_cap(c) ==
    /\ pcC[c] = "s_read_count"
    /\ pcC' = [pcC EXCEPT ![c] =
                 IF loc[c].idle = 0 THEN "s_attr" ELSE "s_wake"]
    /\ hist' = [hist EXCEPT ![c].rcount =
                  IF loc[c].idle = 0 THEN <<threads_count>> ELSE <<>>]
    /\ UNCHANGED <<poolVars, next, pcW, loc, ret, task, cfg_in, plan,
                   created, runs, pushOrder, popOrder, errq, batchVars>>

\* line 235 without the test idle == 0
S_read_count_no_idle_test(c) ==
    /\ pcC[c] = "s_read_count"
    /\ pcC' = [pcC EXCEPT ![c] =
                 IF ULess(threads_count, cfg.threads_max)
                 THEN "s_attr" ELSE "s_wake"]
    /\ hist' = [hist EXCEPT ![c].rcount = <<threads_count>>]
    /\ UNCHANGED <<poolVars, next, pcW, loc, ret, task, cfg_in, plan,
                   created, runs, pushOrder, popOrder, errq, batchVars>>

\* line 235: threads_count is loaded only when idle == 0 (short-circuit &&)
S_read_count(c) ==
    /\ pcC[c] = "s_read_count"
    /\ pcC' = [pcC EXCEPT ![c] =
                 IF loc[c].idle = 0 /\ ULess(threads_count, cfg.threads_max)
                 THEN "s_attr" ELSE "s_wake"]
    /\ hist' = [hist EXCEPT ![c].rcount =
                  IF loc[c].idle = 0 THEN <<threads_count>> ELSE <<>>]
    /\ UNCHANGED <<poolVars, next, pcW, loc, ret, task, cfg_in, plan,
                   created, runs, pushOrder, popOrder, errq, batchVars>>

\* the error return handing back err instead of -err
S_fail_positive(c, err) ==
    /\ loc' = [loc EXCEPT ![c].err = err]
    /\ ret' = [ret EXCEPT ![c] = err]
    /\ pcC' = [pcC EXCEPT ![c] = "idle"]
    /\ hist' = [hist EXCEPT ![c].failed = TRUE,
                            ![c].ridle = <<>>, ![c].rcount = <<>>]
    /\ errq' = [tasks |-> errq.tasks \cup Range(hist[c].tasks),
                covered |-> IF Live # {}
                            THEN errq.covered \cup Range(hist[c].tasks)
                            ELSE errq.covered]
    /\ UNCHANGED <<poolVars, next, pcW, task, cfg_in, plan, created, runs,
                   pushOrder, popOrder, batchVars>>

\* the error return emptying the work queue (the push undone, unlocked)
S_fail_rollback(c, err) ==
    /\ loc' = [loc EXCEPT ![c].err = err]
    /\ ret' = [ret EXCEPT ![c] = -err]
    /\ pcC' = [pcC EXCEPT ![c] = "idle"]
    /\ hist' = [hist EXCEPT ![c].failed = TRUE,
                            ![c].ridle = <<>>, ![c].rcount = <<>>]
    /\ errq' = [tasks |-> errq.tasks \cup Range(hist[c].tasks),
                covered |-> IF Live # {}
                            THEN errq.covered \cup Range(hist[c].tasks)
                            ELSE errq.covered]
    /\ work_queue' = ZeroBatch
    /\ UNCHANGED <<cfg, threads_count, threads_idle, mu, done, cond,
                   cond_live, next, pcW, task, cfg_in, plan, created, runs,
                   pushOrder, popOrder, batchVars>>

\* lines 261-264: the error return; the batch stays where the push left it
S_fail(c, err) ==
    /\ loc' = [loc EXCEPT ![c].err = err]
    /\ ret' = [ret EXCEPT ![c] = -err]
    /\ pcC' = [pcC EXCEPT ![c] = "idle"]
    /\ hist' = [hist EXCEPT ![c].failed = TRUE,
                            ![c].ridle = <<>>, ![c].rcount = <<>>]
    /\ errq' = [tasks |-> errq.tasks \cup Range(hist[c].tasks),
                covered |-> IF Live # {}
                            THEN errq.covered \cup Range(hist[c].tasks)
                            ELSE errq.covered]
    /\ UNCHANGED <<poolVars, next, pcW, task, cfg_in, plan, created, runs,
                   pushOrder, popOrder, batchVars>>

\* lines 236-238
S_attr(c) ==
    /\ pcC[c] = "s_attr"
    /\ \/ \E err \in AttrErrors : S_fail(c, err)
       \/ /\ pcC' = [pcC EXCEPT ![c] = "s_create"]
          /\ UNCHANGED <<poolVars, next, pcW, loc, ret, task, cfg_in, plan,
                         created, runs, pushOrder, popOrder, hist, errq, batchVars>>

\* lines 240-248: the new thread starts at the top of tpool_thread_main
S_create(c) ==
    /\ pcC[c] = "s_create"
    /\ \/ \E err \in CreateErrors : S_fail(c, err)
       \/ /\ created' = created + 1
          /\ pcW' = [pcW EXCEPT ![created + 1] = "lock"]
          /\ pcC' = [pcC EXCEPT ![c] = "s_inc"]
          /\ hist' = [hist EXCEPT ![c].spawned = @ + 1]
          /\ errq' = [errq EXCEPT !.covered = errq.tasks]
          /\ UNCHANGED <<poolVars, next, loc, ret, task, cfg_in, plan, runs,
                         pushOrder, popOrder, batchVars>>

\* lines 250-251
S_inc(c) ==
    /\ pcC[c] = "s_inc"
    /\ threads_count' = UAdd1(threads_count)
    /\ loc' = [loc EXCEPT ![c].idle = UAdd1(@)]
    /\ pcC' = [pcC EXCEPT ![c] = "s_wake"]
    /\ hist' = [hist EXCEPT ![c].inc = @ + 1]
    /\ UNCHANGED <<cfg, threads_idle, mu, work_queue, done, cond, cond_live,
                   next, pcW, ret, task, cfg_in, plan, created, runs,
                   pushOrder, popOrder, errq, batchVars>>

\* pthread_cond_signal: one of the blocked workers, if any, is unblocked
cond_signal ==
    IF cond = {}
    THEN UNCHANGED <<cond, pcW>>
    ELSE \E w \in cond :
            /\ cond' = cond \ {w}
            /\ pcW' = [pcW EXCEPT ![w] = "woken"]

\* lines 255-259 without the pthread_cond_signal
S_wake_no_signal(c) ==
    /\ pcC[c] = "s_wake"
    /\ UNCHANGED <<cond, pcW>>
    /\ hist' = [hist EXCEPT ![c].ridle = <<>>, ![c].rcount = <<>>]
    /\ ret' = [ret EXCEPT ![c] = 0]
    /\ pcC' = [pcC EXCEPT ![c] = "idle"]
    /\ UNCHANGED <<cfg, threads_count, threads_idle, mu, work_queue, done,
                   cond_live, next, loc, task, cfg_in, plan, created, runs,
                   pushOrder, popOrder, errq, batchVars>>

\* lines 255-259
S_wake(c) ==
    /\ pcC[c] = "s_wake"
    /\ IF loc[c].idle # 0
       THEN cond_signal
       ELSE UNCHANGED <<cond, pcW>>
    /\ hist' = [hist EXCEPT ![c].sig = IF loc[c].idle # 0 THEN @ + 1 ELSE @,
                            ![c].ridle = <<>>, ![c].rcount = <<>>]
    /\ ret' = [ret EXCEPT ![c] = 0]
    /\ pcC' = [pcC EXCEPT ![c] = "idle"]
    /\ UNCHANGED <<cfg, threads_count, threads_idle, mu, work_queue, done,
                   cond_live, next, loc, task, cfg_in, plan, created, runs,
                   pushOrder, popOrder, errq, batchVars>>

tpool_schedule(c) ==
    \/ S_begin(c)
    \/ S_lock(c)
    \/ S_push(c)
    \/ S_unlock(c)
    \/ S_read_idle(c)
    \/ S_read_count(c)
    \/ S_attr(c)
    \/ S_create(c)
    \/ S_inc(c)
    \/ S_wake(c)

\* ----------------------------------------------------------- tpool_deinit
\* The owner tears the pool down once every caller has made all its calls.
\* line 179
D_lock ==
    /\ pcC["main"] = "idle"
    /\ \A c \in Callers : plan[c] = <<>> /\ pcC[c] = "idle"
    /\ mu = NONE
    /\ mu' = "main"
    /\ pcC' = [pcC EXCEPT !["main"] = "d_set"]
    /\ UNCHANGED <<cfg, threads_count, threads_idle, work_queue, done, cond,
                   cond_live, next, pcW, loc, ret, task, cfg_in, plan,
                   created, runs, pushOrder, popOrder, hist, errq, batchVars>>

\* line 180
D_set ==
    /\ pcC["main"] = "d_set"
    /\ done' = TRUE
    /\ pcC' = [pcC EXCEPT !["main"] = "d_unlock"]
    /\ UNCHANGED <<cfg, threads_count, threads_idle, mu, work_queue, cond,
                   cond_live, next, pcW, loc, ret, task, cfg_in, plan,
                   created, runs, pushOrder, popOrder, hist, errq, batchVars>>

\* line 181
D_unlock ==
    /\ pcC["main"] = "d_unlock"
    /\ mu' = NONE
    /\ pcC' = [pcC EXCEPT !["main"] = "d_broadcast"]
    /\ UNCHANGED <<cfg, threads_count, threads_idle, work_queue, done, cond,
                   cond_live, next, pcW, loc, ret, task, cfg_in, plan,
                   created, runs, pushOrder, popOrder, hist, errq, batchVars>>

\* line 183 with pthread_cond_signal in place of pthread_cond_broadcast
D_broadcast_signal ==
    /\ pcC["main"] = "d_broadcast"
    /\ cond_signal
    /\ pcC' = [pcC EXCEPT !["main"] = "d_wait"]
    /\ UNCHANGED <<cfg, threads_count, threads_idle, mu, work_queue, done,
                   cond_live, next, loc, ret, task, cfg_in, plan, created,
                   runs, pushOrder, popOrder, hist, errq, bt, bnext, op>>

\* line 183: every blocked worker is unblocked
D_broadcast ==
    /\ pcC["main"] = "d_broadcast"
    /\ cond' = {}
    /\ pcW' = [w \in Workers |-> IF w \in cond THEN "woken" ELSE pcW[w]]
    /\ pcC' = [pcC EXCEPT !["main"] = "d_wait"]
    /\ UNCHANGED <<cfg, threads_count, threads_idle, mu, work_queue, done,
                   cond_live, next, loc, ret, task, cfg_in, plan, created,
                   runs, pushOrder, popOrder, hist, errq, bt, bnext, op>>

\* lines 185-186: the loop is left when the load returns 0; an iteration
\* that reads a non-zero count yields and changes nothing
D_wait ==
    /\ pcC["main"] = "d_wait"
    /\ threads_count = 0
    /\ pcC' = [pcC EXCEPT !["main"] = "d_destroy"]
    /\ UNCHANGED <<poolVars, next, pcW, loc, ret, task, cfg_in, plan,
                   created, runs, pushOrder, popOrder, hist, errq, batchVars>>

\* lines 188-189
D_destroy ==
    /\ pcC["main"] = "d_destroy"
    /\ cond_live' = FALSE
    /\ pcC' = [pcC EXCEPT !["main"] = "returned"]
    /\ UNCHANGED <<cfg, threads_count, threads_idle, mu, work_queue, done,
                   cond, next, pcW, loc, ret, task, cfg_in, plan, created,
                   runs, pushOrder, popOrder, hist, errq, bt, bnext, op>>

tpool_deinit ==
    \/ D_lock
    \/ D_set
    \/ D_unlock
    \/ D_broadcast
    \/ D_wait
    \/ D_destroy

\* ------------------------------------------------------ tpool_thread_main
\* lines 200-201 with done tested before the queue
W_branch_done_first(size, d) ==
    IF d THEN "dec_count" ELSE (IF size = 0 THEN "inc_idle" ELSE "pop")

\* lines 200-201 with the return taken on an empty queue whatever done is
W_branch_exit_on_empty(size, d) ==
    IF size = 0 THEN "dec_count" ELSE "pop"

\* lines 200-201, evaluated with mu held: where the iteration goes
W_branch(size, d) ==
    IF size = 0 THEN (IF d THEN "dec_count" ELSE "inc_idle") ELSE "pop"

\* lines 199-201
W_lock(w) ==
    /\ pcW[w] = "lock"
    /\ mu = NONE
    /\ mu' = Tid(w)
    /\ pcW' = [pcW EXCEPT ![w] = W_branch(work_queue.size, done)]
    /\ UNCHANGED <<cfg, threads_count, threads_idle, work_queue, done, cond,
                   cond_live, next, pcC, loc, ret, task, cfg_in, plan,
                   created, runs, pushOrder, popOrder, hist, errq, batchVars>>

\* line 202
W_dec_count(w) ==
    /\ pcW[w] = "dec_count"
    /\ threads_count' = USub1(threads_count)
    /\ pcW' = [pcW EXCEPT ![w] = "exit_unlock"]
    /\ UNCHANGED <<cfg, threads_idle, mu, work_queue, done, cond, cond_live,
                   next, pcC, loc, ret, task, cfg_in, plan, created, runs,
                   pushOrder, popOrder, hist, errq, batchVars>>

\* lines 203-204
W_exit_unlock(w) ==
    /\ pcW[w] = "exit_unlock"
    /\ mu' = NONE
    /\ pcW' = [pcW EXCEPT ![w] = "exited"]
    /\ UNCHANGED <<cfg, threads_count, threads_idle, work_queue, done, cond,
                   cond_live, next, pcC, loc, ret, task, cfg_in, plan,
                   created, runs, pushOrder, popOrder, hist, errq, batchVars>>

\* line 206 without the increment
W_inc_idle_skipped(w) ==
    /\ pcW[w] = "inc_idle"
    /\ threads_idle' = threads_idle
    /\ pcW' = [pcW EXCEPT ![w] = "wait"]
    /\ UNCHANGED <<cfg, threads_count, mu, work_queue, done, cond, cond_live,
                   next, pcC, loc, ret, task, cfg_in, plan, created, runs,
                   pushOrder, popOrder, hist, errq, batchVars>>

\* line 206
W_inc_idle(w) ==
    /\ pcW[w] = "inc_idle"
    /\ threads_idle' = UAdd1(threads_idle)
    /\ pcW' = [pcW EXCEPT ![w] = "wait"]
    /\ UNCHANGED <<cfg, threads_count, mu, work_queue, done, cond, cond_live,
                   next, pcC, loc, ret, task, cfg_in, plan, created, runs,
                   pushOrder, popOrder, hist, errq, batchVars>>

\* line 207, entry: mu is released and the thread blocks on cond, atomically
W_wait(w) ==
    /\ pcW[w] = "wait"
    /\ mu' = NONE
    /\ cond' = cond \cup {w}
    /\ pcW' = [pcW EXCEPT ![w] = "waiting"]
    /\ UNCHANGED <<cfg, threads_count, threads_idle, work_queue, done,
                   cond_live, next, pcC, loc, ret, task, cfg_in, plan,
                   created, runs, pushOrder, popOrder, hist, errq, batchVars>>

\* line 207: pthread_cond_wait may return without a signal (spurious wake-up)
W_spurious(w) ==
    /\ pcW[w] = "waiting"
    /\ w \in cond
    /\ cond' = cond \ {w}
    /\ pcW' = [pcW EXCEPT ![w] = "woken"]
    /\ UNCHANGED <<cfg, threads_count, threads_idle, mu, work_queue, done,
                   cond_live, next, pcC, loc, ret, task, cfg_in, plan,
                   created, runs, pushOrder, popOrder, hist, errq, batchVars>>

\* line 207, return, with a wait that does not re-acquire mu
W_reacquire_no_lock(w) ==
    /\ pcW[w] = "woken"
    /\ UNCHANGED mu
    /\ pcW' = [pcW EXCEPT ![w] = "dec_idle"]
    /\ UNCHANGED <<cfg, threads_count, threads_idle, work_queue, done, cond,
                   cond_live, next, pcC, loc, ret, task, cfg_in, plan,
                   created, runs, pushOrder, popOrder, hist, errq, batchVars>>

\* line 207, return: the unblocked thread re-acquires mu
W_reacquire(w) ==
    /\ pcW[w] = "woken"
    /\ mu = NONE
    /\ mu' = Tid(w)
    /\ pcW' = [pcW EXCEPT ![w] = "dec_idle"]
    /\ UNCHANGED <<cfg, threads_count, threads_idle, work_queue, done, cond,
                   cond_live, next, pcC, loc, ret, task, cfg_in, plan,
                   created, runs, pushOrder, popOrder, hist, errq, batchVars>>

\* line 208
W_dec_idle(w) ==
    /\ pcW[w] = "dec_idle"
    /\ threads_idle' = USub1(threads_idle)
    /\ pcW' = [pcW EXCEPT ![w] = "pop"]
    /\ UNCHANGED <<cfg, threads_count, mu, work_queue, done, cond, cond_live,
                   next, pcC, loc, ret, task, cfg_in, plan, created, runs,
                   pushOrder, popOrder, hist, errq, batchVars>>

\* line 211
W_pop(w) ==
    /\ pcW[w] = "pop"
    /\ LET r == tpool_batch_pop(work_queue, next)
       IN  /\ work_queue' = r.b
           /\ task' = [task EXCEPT ![w] = r.t]
           /\ popOrder' = IF r.t = NULL THEN popOrder ELSE Append(popOrder, r.t)
    /\ pcW' = [pcW EXCEPT ![w] = "unlock"]
    /\ UNCHANGED <<cfg, threads_count, threads_idle, mu, done, cond,
                   cond_live, next, pcC, loc, ret, cfg_in, plan, created,
                   runs, pushOrder, hist, errq, batchVars>>

\* lines 212-214 with the unlock skipped when a task was popped
W_unlock_only_if_null(w) ==
    /\ pcW[w] = "unlock"
    /\ mu' = IF task[w] # NULL THEN mu ELSE NONE
    /\ pcW' = [pcW EXCEPT ![w] = IF task[w] # NULL THEN "work" ELSE "lock"]
    /\ UNCHANGED <<cfg, threads_count, threads_idle, work_queue, done, cond,
                   cond_live, next, pcC, loc, ret, task, cfg_in, plan,
                   created, runs, pushOrder, popOrder, hist, errq, batchVars>>

\* lines 212-214
W_unlock(w) ==
    /\ pcW[w] = "unlock"
    /\ mu' = NONE
    /\ pcW' = [pcW EXCEPT ![w] = IF task[w] # NULL THEN "work" ELSE "lock"]
    /\ UNCHANGED <<cfg, threads_count, threads_idle, work_queue, done, cond,
                   cond_live, next, pcC, loc, ret, task, cfg_in, plan,
                   created, runs, pushOrder, popOrder, hist, errq, batchVars>>

\* line 215: the work function runs and returns; task goes out of scope
W_work(w) ==
    /\ pcW[w] = "work"
    /\ runs' = [runs EXCEPT ![task[w]] = @ + 1]
    /\ task' = [task EXCEPT ![w] = NULL]
    /\ pcW' = [pcW EXCEPT ![w] = "lock"]
    /\ UNCHANGED <<poolVars, next, pcC, loc, ret, cfg_in, plan, created,
                   pushOrder, popOrder, hist, errq, batchVars>>

tpool_thread_main(w) ==
    \/ W_lock(w)
    \/ W_dec_count(w)
    \/ W_exit_unlock(w)
    \/ W_inc_idle(w)
    \/ W_wait(w)
    \/ W_reacquire(w)
    \/ W_dec_idle(w)
    \/ W_pop(w)
    \/ W_unlock(w)
    \/ W_work(w)

poolOnlyVars == <<cfg, threads_count, threads_idle, mu, work_queue, done,
                  cond, cond_live, next, pcC, pcW, loc, ret, task, cfg_in,
                  plan, created, runs, pushOrder, popOrder, hist, errq>>

\* ------------------------------------- the batch operations on their own
\* A caller holding two batches builds, merges and drains them.  A task is
\* in at most one batch; a batch that was pushed into another is given up.
Members(b) == Range(PopOrder(b, bnext))

\* b = tpool_batch_from_task(&t)
B_from_task(i, t) ==
    /\ \A j \in 1..2 : j # i => t \notin Members(bt[j])
    /\ bt' = [bt EXCEPT ![i] = tpool_batch_from_task(t)]
    /\ op' = [NoOp EXCEPT !.name = "from_task", !.slot = i, !.t = t]
    /\ UNCHANGED <<bnext, poolOnlyVars>>

\* tpool_batch_push(&bt[i], bt[j])
B_push(i, j) ==
    /\ i # j
    /\ LET r == tpool_batch_push(bt[i], bt[j], bnext)
       IN  /\ bt' = [bt EXCEPT ![i] = r.b, ![j] = ZeroBatch]
           /\ bnext' = r.next
    /\ op' = [NoOp EXCEPT !.name = "push", !.slot = i,
                          !.pre = bt[i], !.a = PopOrder(bt[i], bnext),
                          !.o = bt[j], !.b = PopOrder(bt[j], bnext)]
    /\ UNCHANGED poolOnlyVars

\* t = tpool_batch_pop(&bt[i])
B_pop(i) ==
    /\ LET r == tpool_batch_pop(bt[i], bnext)
       IN  /\ bt' = [bt EXCEPT ![i] = r.b]
           /\ op' = [NoOp EXCEPT !.name = "pop", !.slot = i, !.pre = bt[i],
                                 !.a = PopOrder(bt[i], bnext), !.t = r.t]
    /\ UNCHANGED <<bnext, poolOnlyVars>>

\* the tasks' next fields start indeterminate: nothing initialises them
BatchInit ==
    /\ PoolInit
    /\ plan = [c \in Callers |-> <<>>]
    /\ cfg_in.threads_max = 0
    /\ next = [t \in Tasks |-> NULL]
    /\ bt = [i \in 1..2 |-> ZeroBatch]
    /\ bnext \in [BatchTasks -> {NULL} \cup BatchTasks]
    /\ op = NoOp

BatchNext ==
    \/ \E i \in 1..2, t \in BatchTasks : B_from_task(i, t)
    \/ \E i \in 1..2, j \in 1..2 : B_push(i, j)
    \/ \E i \in 1..2 : B_pop(i)

BatchSpec == BatchInit /\ [][BatchNext]_vars

\* ------------------------------------------------------- the specification
Next ==
    \/ tpool_init
    \/ \E c \in Callers : tpool_schedule(c)
    \/ tpool_deinit
    \/ \E w \in Workers : tpool_thread_main(w)
    \/ \E w \in Workers : W_spurious(w)

Spec == Init /\ [][Next]_vars

\* Threads are scheduled fairly: a thread that can take a step takes it.
FairSpec ==
    /\ Spec
    /\ WF_vars(tpool_init \/ tpool_schedule("main") \/ tpool_deinit)
    /\ WF_vars(tpool_schedule("other"))
    /\ \A w \in Workers : WF_vars(tpool_thread_main(w))

\* The pool used from its owner's thread alone, as test.c uses it.
OwnerInit == Init /\ plan["other"] = <<>>

OwnerFairSpec ==
    /\ OwnerInit /\ [][Next]_vars
    /\ WF_vars(tpool_init \/ tpool_schedule("main") \/ tpool_deinit)
    /\ \A w \in Workers : WF_vars(tpool_thread_main(w))

\* The owner finishes every call it has begun but need not begin another
\* tpool_schedule or tpool_deinit call; workers are scheduled fairly.
OwnerWorkSpec ==
    /\ OwnerInit /\ [][Next]_vars
    /\ WF_vars(tpool_init
                \/ (pcC["main"] # "idle"
                     /\ (tpool_schedule("main") \/ tpool_deinit)))
    /\ \A w \in Workers : WF_vars(tpool_thread_main(w))

\* A program either exercises the batch operations on batches of its own or
\* hands its batches to a pool from the owner's thread.
BatchPhase ==
    /\ pcC["main"] = "init"
    /\ plan = [c \in Callers |-> <<>>]
    /\ cfg_in.threads_max = 0
PoolPhase == op = NoOp

JointInit == OwnerInit \/ BatchInit

JointNext ==
    \/ PoolPhase /\ Next
    \/ BatchPhase /\ BatchNext

JointSpec == JointInit /\ [][JointNext]_vars

\* ------------------------------------------------------------------ claims
MainReturned == pcC["main"] = "returned"
InQueue == PopOrder(work_queue, next)
IsPrefix(s, t) == Len(s) <= Len(t) /\ SubSeq(t, 1, Len(s)) = s
Restrict(s, S) == SelectSeq(s, LAMBDA x : x \in S)

\* only the pool's owner calls tpool_schedule
SingleCaller == hist["other"].n = 0 /\ plan["other"] = <<>>
\* exactly one tpool_schedule call was made on the pool, by its owner
OneBatchOnce == hist["main"].n = 1 /\ SingleCaller

InProgress == {w \in Workers : pcW[w] \in {"unlock", "work"} /\ task[w] # NULL}

\* C2: when tpool_deinit has returned (every tpool_schedule call before it
\* having returned 0) the queue is empty, no work function is in progress
\* and no worker thread is live.
C2_DeinitBarrier ==
    (MainReturned /\ errq.tasks = {}) =>
        /\ work_queue.size = 0
        /\ InProgress = {}
        /\ Live = {}

\* C3: the number of live worker threads never exceeds cfg.threads_max,
\* also when tpool_schedule calls overlap.
C3_ThreadCap ==
    pcC["main"] # "init" => Cardinality(Live) <= cfg.threads_max

\* no tpool_schedule call has been made on the pool
NoCallYet == \A c \in Callers : hist[c].n = 0
\* the owner initialises the pool and tears it down at once
InitThenDeinit == NoCallYet /\ \A c \in Callers : plan[c] = <<>>

\* C4: until the first tpool_schedule call no thread exists and
\* threads_count is 0; a pool that is initialised and deinitialised with no
\* call in between has tpool_deinit return.
C4_InitDeinit ==
    /\ [](NoCallYet => (created = 0 /\ Live = {} /\ threads_count = 0))
    /\ (InitThenDeinit ~> (MainReturned /\ created = 0 /\ threads_count = 0))

C4_Witness == InitThenDeinit /\ MainReturned /\ created = 0 /\ cfg.threads_max = 1

\* the step in which caller c's tpool_schedule returns a spawn error
FailReturn(c) == pcC[c] \in {"s_attr", "s_create"} /\ pcC'[c] = "idle"

\* C5, as stated, for a pool with one caller: at a spawn-error return the
\* value is -e, the whole batch is still in the work queue in its order,
\* the call has changed neither counter and has sent no signal.
C5_FailLeavesBatchQueued ==
    [][\A c \in Callers : (FailReturn(c) /\ SingleCaller) =>
          /\ \E e \in AttrErrors \cup CreateErrors : ret'[c] = -e
          /\ Restrict(PopOrder(work_queue', next'), Range(hist[c].tasks))
                = hist[c].tasks
          /\ hist'[c].inc = 0 /\ hist'[c].sig = 0
          /\ UNCHANGED <<threads_count, threads_idle, cond>>]_vars

\* C5, amended: at a spawn-error return the value is -e, the call has
\* changed neither counter and has sent no signal, and each task of the
\* batch is still queued or was dequeued by an already running worker; the
\* queued ones keep their order, and all are queued when no worker is live.
C5_FailLeavesBatchToWorkers ==
    [][\A c \in Callers : FailReturn(c) =>
          /\ \E e \in AttrErrors \cup CreateErrors : ret'[c] = -e
          /\ Restrict(PopOrder(work_queue', next'), Range(hist[c].tasks))
                = Restrict(hist[c].tasks, Tasks \ Range(popOrder'))
          /\ Live = {} =>
                Restrict(PopOrder(work_queue', next'), Range(hist[c].tasks))
                  = hist[c].tasks
          /\ hist'[c].inc = 0 /\ hist'[c].sig = 0 /\ hist'[c].spawned = 0
          /\ UNCHANGED <<threads_count, threads_idle, cond>>]_vars

C5_Witness ==
    \E c \in Callers :
        /\ hist[c].failed /\ pcC[c] = "idle" /\ ret[c] = -11
        /\ hist[c].tasks # <<>>
        /\ Range(hist[c].tasks) \subseteq Range(InQueue)
        /\ Live # {} /\ popOrder # <<>>

\* C6: a task enqueued by a call that returned a spawn error, with a worker
\* alive at that moment or a thread spawned later, has run exactly once
\* when tpool_deinit has returned.
C6_FailedBatchNotLost ==
    MainReturned => \A t \in errq.covered : runs[t] = 1

C6_Witness ==
    /\ MainReturned
    /\ errq.covered # {}
    /\ \E c \in Callers : hist[c].failed /\ hist[c].n = 1
    /\ \A t \in errq.covered : runs[t] = 1

\* the step in which caller c calls tpool_schedule with an empty batch
EmptyCall(c) ==
    /\ pcC[c] = "idle" /\ plan[c] # <<>> /\ Head(plan[c]).size = 0
    /\ hist'[c].n = hist[c].n + 1

\* C7: tpool_schedule with an empty batch returns 0 in that one step, and
\* the mutex, queue, done flag, counters, condition variable and threads
\* are as they were.
C7_EmptyBatchNoOp ==
    [][\A c \in Callers : EmptyCall(c) =>
          /\ ret'[c] = 0 /\ pcC'[c] = "idle"
          /\ hist'[c].locks = 0 /\ hist'[c].sig = 0 /\ hist'[c].spawned = 0
          /\ UNCHANGED <<mu, work_queue, next, done, threads_count,
                         threads_idle, cond, cond_live, pcW, created>>]_vars

C7_Witness ==
    \E c \in Callers :
        /\ hist[c].n = 2 /\ hist[c].tasks = <<>> /\ pcC[c] = "idle"
        /\ ret[c] = 0 /\ hist[c].locks = 0
        /\ work_queue.size > 0 /\ Live # {}

\* C8: the tasks popped so far are, in order, the first tasks pushed, and
\* the queue holds the rest in the order they were pushed.
C8_Fifo ==
    /\ IsPrefix(popOrder, pushOrder)
    /\ pushOrder = popOrder \o InQueue

C8_Witness ==
    /\ pushOrder = <<2, 1>>
    /\ popOrder = <<2, 1>>
    /\ Cardinality(Live) = 2

\* C9: after tpool_batch_push(&A, B) on disjoint batches A has size
\* size(A) + size(B) and pops A's tasks in order, then B's; with A or B
\* empty the result is the other one.
C9_PushConcat ==
    op.name = "push" =>
        /\ bt[op.slot].size = op.pre.size + op.o.size
        /\ PopOrder(bt[op.slot], bnext) = op.a \o op.b
        /\ Len(op.a) = op.pre.size /\ Len(op.b) = op.o.size
        /\ op.o.size = 0 => bt[op.slot] = op.pre
        /\ op.pre.size = 0 => bt[op.slot] = op.o

C9_Witness ==
    /\ op.name = "push"
    /\ Len(op.a) = 2 /\ Len(op.b) = 1
    /\ PopOrder(bt[op.slot], bnext) = <<3, 1, 2>>

\* C10: tpool_batch_pop on the empty queue returns NULL and leaves the
\* queue as it was, and a worker that popped NULL goes back to the top of
\* its loop without invoking a work function.
C10_PopEmpty ==
    [][\A w \in Workers :
          /\ (pcW[w] = "pop" /\ pcW'[w] = "unlock" /\ work_queue.size = 0) =>
                (task'[w] = NULL /\ UNCHANGED <<work_queue, next, runs>>)
          /\ (pcW[w] = "unlock" /\ task[w] = NULL /\ pcW'[w] # "unlock") =>
                (pcW'[w] = "lock" /\ UNCHANGED <<work_queue, next, runs>>)
      ]_vars

C10_Witness ==
    \E w \in Workers :
        /\ pcW[w] = "unlock" /\ task[w] = NULL
        /\ work_queue = ZeroBatch /\ ~done

\* ---- C11 ----
AllPushedRunOnce ==
    \A t \in Tasks : runs[t] = IF t \in Range(pushOrder) THEN 1 ELSE 0

InCall(c) == pcC[c] \in {"s_lock", "s_push", "s_unlock", "s_read_idle",
                         "s_read_count", "s_attr", "s_create", "s_inc",
                         "s_wake"}

\* tasks enqueued by a tpool_schedule call that has returned 0
OkTasks ==
    Range(pushOrder)
      \ (errq.tasks \cup UNION {Range(hist[c].tasks) : c \in {d \in Callers : InCall(d)}})

Blocked == {w \in Workers : pcW[w] = "waiting"}

C12_NoStuckOkTask ==
    ~ ( /\ Range(InQueue) \cap OkTasks # {}
        /\ \A c \in Callers : ~InCall(c)
        /\ Live \subseteq Blocked )

Exiting == {w \in Workers : pcW[w] \in {"dec_count", "exit_unlock"}}

\* C13: a worker takes the exit path only at a test, made with the mutex
\* held, that found done set and the queue empty; it still holds the mutex
\* and the queue is still empty when it leaves, so no worker exits while
\* tasks are queued; and done, once set, is never reset.
C13_ExitOnlyWhenDoneAndEmpty ==
    /\ [](\A w \in Exiting : done /\ work_queue.size = 0 /\ mu = Tid(w))
    /\ [](\A w \in Workers : pcW[w] = "exited" => done)
    /\ [][ /\ done => done'
           /\ \A w \in Workers :
                /\ (pcW[w] # "dec_count" /\ pcW'[w] = "dec_count")
                      => (pcW[w] = "lock" /\ mu = NONE /\ mu' = Tid(w)
                          /\ done /\ work_queue.size = 0)
                /\ (pcW[w] # "exited" /\ pcW'[w] = "exited")
                      => (pcW[w] = "exit_unlock" /\ done
                          /\ work_queue.size = 0) ]_vars

\* a worker that ran a task has left through the exit path
C13_Witness ==
    \E w \in Workers :
        /\ pcW[w] = "exited" /\ done
        /\ popOrder # <<>> /\ runs[popOrder[1]] = 1

\* ---- C14 ----
DeinitStarted == pcC["main"] \in {"d_set", "d_unlock", "d_broadcast", "d_wait",
                                  "d_destroy", "returned"}

\* C14: under fair scheduling, once tpool_deinit has started (and no
\* tpool_schedule call follows) every worker, whatever it was doing, exits,
\* threads_count reaches 0 and tpool_deinit returns.
C14_DeinitTerminates ==
    /\ DeinitStarted ~> (Live = {})
    /\ DeinitStarted ~> (threads_count = 0 /\ MainReturned)

\* two workers were created, both ran the exit path and tpool_deinit returned
C14_Witness ==
    /\ MainReturned /\ created = 2 /\ Live = {}
    /\ threads_count = 0
    /\ popOrder # <<>>

\* ---- C15 ----
\* the call is creating a thread or has created one and not yet returned
Spawning(c) ==
    pcC[c] \in {"s_attr", "s_create"} \/ (InCall(c) /\ hist[c].spawned # 0)

\* C15: a tpool_schedule call creates at most one worker whatever the size of
\* its batch; it attempts or performs a creation only if the threads_idle it
\* read after pushing was 0 and the threads_count it then read was below
\* cfg.threads_max; a call that read threads_idle > 0 never spawns.
C15_OneSpawnPerCall ==
    \A c \in Callers :
        /\ hist[c].spawned <= 1
        /\ Spawning(c) => /\ hist[c].ridle = <<0>>
                          /\ Len(hist[c].rcount) = 1
                          /\ ULess(hist[c].rcount[1], cfg.threads_max)
        /\ (hist[c].ridle # <<>> /\ hist[c].ridle[1] # 0) => ~Spawning(c)

\* a call with a batch of MaxTasks tasks has returned having created one
\* worker
C15_Witness ==
    \E c \in Callers :
        /\ pcC[c] = "idle" /\ ret[c] = 0
        /\ Len(hist[c].tasks) = MaxTasks
        /\ hist[c].spawned = 1

\* ---- C16 ----
\* positions between a thread's pthread_mutex_lock (or the return of its
\* pthread_cond_wait) and its unlock (or the entry of its wait)
CallerLocked(c) == pcC[c] \in {"s_push", "s_unlock", "d_set", "d_unlock"}
WorkerLocked(w) == pcW[w] \in {"dec_count", "exit_unlock", "inc_idle", "wait",
                               "dec_idle", "pop", "unlock"}

\* C16: on an initialised pool the work queue and done are read or written
\* only by the thread holding the mutex: tpool_schedule's push,
\* tpool_deinit's write of done and the worker's tests and pop are all at
\* positions where the thread holds mu, a step that changes the queue or
\* done is a step of the holder, and the worker's tests follow its
\* acquisition; so two threads never access them at once.
C16_QueueAndDoneUnderMutex ==
    /\ [](\A c \in Callers : CallerLocked(c) => mu = c)
    /\ [](\A w \in Workers : WorkerLocked(w) => mu = Tid(w))
    /\ [][ /\ (work_queue' # work_queue \/ done' # done)
                => /\ mu # NONE /\ mu' = mu
                   /\ \/ \E c \in Callers :
                            mu = c /\ pcC[c] \in {"s_push", "d_set"}
                                   /\ pcC'[c] # pcC[c]
                      \/ \E w \in Workers :
                            mu = Tid(w) /\ pcW[w] = "pop" /\ pcW'[w] # pcW[w]
           /\ \A w \in Workers :
                (pcW[w] = "lock" /\ pcW'[w] # "lock")
                    => (mu = NONE /\ mu' = Tid(w)
                        /\ pcW'[w] = W_branch(work_queue.size, done)) ]_vars

\* a worker is about to pop under the mutex while the owner, with a batch to
\* push, waits for the mutex
C16_Witness ==
    \E w \in Workers :
        /\ pcW[w] = "pop" /\ mu = Tid(w) /\ work_queue.size # 0
        /\ pcC["main"] = "s_lock"

\* ---- C17 ----
\* C17: a worker whose work function is executing does not hold the mutex;
\* a worker holds it only between its lock (or the return of its wait) and
\* its unlock (or the entry of its wait), so a running task blocks nobody
\* on the mutex.
C17_NoMutexDuringWork ==
    \A w \in Workers :
        /\ pcW[w] = "work" => (mu # Tid(w) /\ task[w] # NULL)
        /\ mu = Tid(w) => WorkerLocked(w)

\* a task is running while the owner holds the mutex to push the next batch
C17_Witness ==
    \E w \in Workers :
        /\ pcW[w] = "work"
        /\ pcC["main"] = "s_push" /\ mu = "main"

\* ---- C18 ----
\* workers created whose creator has not yet executed line 250
Uncounted == {c \in Callers : pcC[c] = "s_inc"}
\* workers past the decrement of line 202 that have not yet returned
Leaving == {w \in Workers : pcW[w] = "exit_unlock"}
\* workers between the increment of line 206 and the decrement of line 208
IdleCounted == {w \in Workers : pcW[w] \in {"wait", "waiting", "woken", "dec_idle"}}

\* C18 as written: in every reachable state threads_count is the number of
\* live workers and threads_idle the number of workers waiting on the
\* condition variable, threads_idle <= threads_count, and no counter went
\* below zero.
C18_CountersExact ==
    /\ threads_count = Cardinality(Live)
    /\ threads_idle = Cardinality(Blocked)
    /\ threads_idle <= threads_count
    /\ threads_count >= 0 /\ threads_idle >= 0

\* C18, amended: threads_count is the number of live workers less those not
\* yet counted by their creator and those that have decremented and not yet
\* returned, so it never exceeds the number of live workers; threads_idle is
\* the number of workers between their idle++ and their idle--, so it is at
\* least the number of workers blocked on the condition variable and at most
\* the number of live workers; no counter is decremented below zero.
C18_CountersLag ==
    /\ [](threads_count = Cardinality(Live) - Cardinality(Uncounted)
                                            - Cardinality(Leaving))
    /\ [](threads_idle = Cardinality(IdleCounted))
    /\ [](0 <= threads_count /\ threads_count <= Cardinality(Live))
    /\ [](Cardinality(Blocked) <= threads_idle
            /\ threads_idle <= Cardinality(Live))
    /\ [][ /\ threads_count' < threads_count => threads_count > 0
           /\ threads_idle' < threads_idle => threads_idle > 0 ]_vars

\* one worker blocked and counted idle, another running a task
C18_Witness ==
    /\ threads_count = 2 /\ Cardinality(Live) = 2
    /\ threads_idle = 1 /\ Cardinality(Blocked) = 1
    /\ \E w \in Workers : pcW[w] = "work"

\* ---- C19 ----
\* C19: once tpool_deinit has returned no worker accesses the pool any more:
\* none holds the mutex or is about to unlock it, none can still reach the
\* condition variable, the queue or the counters.
C19_QuiescentAfterDeinit ==
    MainReturned =>
        /\ mu = NONE
        /\ \A w \in Workers : pcW[w] \in {"none", "exited"}

\* ---- C20 ----
\* the nodes met from t by following at most k next-links
RECURSIVE Chain(_, _, _)
Chain(t, k, nx) ==
    IF k = 0 \/ t = NULL THEN <<>> ELSE <<t>> \o Chain(nx[t], k - 1, nx)

WellFormed(b, nx) ==
    /\ b.size >= 0
    /\ b.size = 0 <=> (b.head = NULL /\ b.tail = NULL)
    /\ b.size > 0 =>
          LET ch == Chain(b.head, b.size, nx)
          IN  /\ Len(ch) = b.size
              /\ ch[b.size] = b.tail
              /\ \A i, j \in 1..Len(ch) : ch[i] = ch[j] => i = j

\* C20: every batch built by tpool_batch_from_task, tpool_batch_push and
\* tpool_batch_pop from the zero batch has size 0 exactly when head and tail
\* are both NULL, and its next-links lead from head to tail in exactly size
\* nodes; so have the pool's work queue, the batches handed to
\* tpool_schedule and the batches still to be scheduled, in every state.
C20_BatchWellFormed ==
    /\ \A i \in 1..2 : WellFormed(bt[i], bnext)
    /\ WellFormed(work_queue, next)
    /\ \A c \in Callers :
          /\ InCall(c) => WellFormed(loc[c].b, next)
          /\ \A i \in 1..Len(plan[c]) : WellFormed(plan[c][i], next)

\* a batch of three tasks, built by from_task and push, has lost its head
\* to a pop
C20_Witness ==
    \E i \in 1..2 :
        /\ op.name = "pop" /\ op.slot = i /\ op.pre.size = 3
        /\ bt[i].size = 2 /\ bt[i].head # bt[i].tail

====
